---- MODULE Spec2Model ----
(***************************************************************************)
(* Model of watchman's layered configuration core, cfg.c.                  *)
(*                                                                         *)
(* Two process-wide layers (global_cfg, arg_cfg) hold JSON objects; a      *)
(* per-root object is supplied by the caller.  cfg_get_json resolves a key *)
(* root -> argument -> global, the typed accessors wrap it with a type     *)
(* check, and cfg_compute_root_files derives the root marker list.         *)
(*                                                                         *)
(* A json_t is a record [t, v]: t is the jansson type tag and v the        *)
(* payload.  An object's payload is its set of [key, val] entries, an      *)
(* array's payload the sequence of its elements.  Every call is one        *)
(* action; `out` records the call that completed last together with what   *)
(* it handed back to its caller.  Each json_t passed to a setter is a      *)
(* value of its own (no json_t is stored under two keys), so a layer       *)
(* entry stands for the json_t it points to and an in-place change of a    *)
(* stored array is a change of that entry.                                 *)
(*                                                                         *)
(* The first specifications run every call to completion in one step.      *)
(* The concurrent ones run calls statement by statement on several         *)
(* threads: cfg_lock is the reader-writer lock, threads the position and   *)
(* the locals of each thread.  released is the set of layers whose object  *)
(* cfg_shutdown has freed, ncalls the number of cfg_compute_root_files     *)
(* calls made in a row since the last call of anything else.               *)
(***************************************************************************)
EXTENDS Integers, Sequences, FiniteSets, TLC

VARIABLES global_cfg, arg_cfg, nwrites, out,
          cfg_lock, threads, released, ncalls

vars ==
  <<global_cfg, arg_cfg, nwrites, out, cfg_lock, threads, released, ncalls>>

----------------------------------------------------------------------------
(* Bounds *)

MaxWrites == 3

MaxArrayLen == 4

MaxCalls == 2

MaxThreads == 3

----------------------------------------------------------------------------
(* json_t values and the jansson operations cfg.c calls *)

NULL == [t |-> "NULL", v |-> 0]

json_null == [t |-> "null", v |-> 0]

json_true == [t |-> "true", v |-> 0]

json_false == [t |-> "false", v |-> 0]

json_integer(i) == [t |-> "integer", v |-> i]

json_real(d) == [t |-> "real", v |-> d]

json_string_nocheck(s) == [t |-> "string", v |-> s]

json_array(elems) == [t |-> "array", v |-> elems]

json_object(entries) == [t |-> "object", v |-> entries]

Entry(name, val) == [key |-> name, val |-> val]

json_is_string(j) == j.t = "string"

json_is_integer(j) == j.t = "integer"

json_is_boolean(j) == j.t \in {"true", "false"}

json_is_number(j) == j.t \in {"integer", "real"}

json_is_array(j) == j.t = "array"

json_is_object(j) == j.t = "object"

json_is_true(j) == j.t = "true"

\* The unwrapped C scalars the accessors hand back.
c_str(s) == [t |-> "char*", v |-> s]

c_int(i) == [t |-> "json_int_t", v |-> i]

c_bool(b) == [t |-> "bool", v |-> b]

c_double(d) == [t |-> "double", v |-> d]

\* jansson's value getters return the payload of the matching type and a
\* zero of the C type for any other json_t.
json_string_value(j) == IF json_is_string(j) THEN c_str(j.v) ELSE c_str("")

json_integer_value(j) == IF json_is_integer(j) THEN c_int(j.v) ELSE c_int(0)

json_real_value(j) == IF j.t = "real" THEN c_double(j.v) ELSE c_double(0)

json_array_size(j) == IF json_is_array(j) THEN Len(j.v) ELSE 0

json_array_get(j, i) == j.v[i + 1]

\* json_object_get: the value stored under name, NULL when obj is not an
\* object or has no such entry.
json_object_get(obj, name) ==
  IF ~json_is_object(obj) THEN NULL
  ELSE IF \E e \in obj.v : e.key = name
       THEN (CHOOSE e \in obj.v : e.key = name).val
       ELSE NULL

\* json_object_set_nocheck: replace the entry of name, or add one; fails
\* (object untouched) when obj is not an object or val is NULL.
json_object_set_nocheck(obj, name, val) ==
  IF ~json_is_object(obj) \/ val = NULL THEN obj
  ELSE json_object({e \in obj.v : e.key # name} \cup {Entry(name, val)})

\* w_root_t: the only field cfg.c reads is config_file.
w_root(config_file) == [t |-> "w_root_t", v |-> config_file]

----------------------------------------------------------------------------
(* The record of the last completed call *)

NoReturn == [t |-> "noreturn", v |-> 0]

Void == [t |-> "void", v |-> 0]

NoOut ==
  [op |-> "none", root |-> NULL, name |-> "", val |-> NULL, defval |-> Void,
   fatal |-> FALSE, ret |-> Void, enforcing |-> FALSE, fresh |-> FALSE]

\* w_log(W_LOG_FATAL, ...) reports the error and stops the calling path:
\* the call is marked fatal and hands nothing back.
w_log_FATAL(o) == [o EXCEPT !.fatal = TRUE, !.ret = NoReturn]

----------------------------------------------------------------------------
(* Process-wide state *)

\* The threads of the concurrent specifications, and the lock and thread
\* state while no call is in progress.
Threads == 1 .. MaxThreads

Unlocked == [writer |-> 0, readers |-> {}]

\* pc is the statement a thread executes next; layer, name, val, isnull,
\* ignore and enforcing are the arguments and locals of its call, ret what
\* the call handed back.  seen and held are history: the effective values
\* the key of a lookup has had since the lookup began, and whether the
\* layer still held val when the accessor read it.
Idle ==
  [pc |-> "idle", op |-> "none", layer |-> "none", name |-> "", val |-> NULL,
   isnull |-> FALSE, ignore |-> FALSE, enforcing |-> FALSE, ret |-> Void,
   seen |-> {}, held |-> TRUE]

Init ==
  /\ global_cfg = NULL
  /\ arg_cfg = NULL
  /\ nwrites = 0
  /\ out = NoOut
  /\ cfg_lock = Unlocked
  /\ threads = [t \in Threads |-> Idle]
  /\ released = {}
  /\ ncalls = 0

\* A call that runs to completion in one step takes and drops cfg_lock
\* inside the step, on the calling thread alone.
Sequential == UNCHANGED <<cfg_lock, threads, released, ncalls>>

cfg_load_global_config_file(config) ==
  /\ nwrites < MaxWrites
  /\ nwrites' = nwrites + 1
  /\ global_cfg' = IF config = NULL THEN global_cfg ELSE config
  /\ UNCHANGED arg_cfg
  /\ out' = [NoOut EXCEPT !.op = "cfg_load_global_config_file", !.val = config]

cfg_set_arg(name, val) ==
  /\ nwrites < MaxWrites
  /\ nwrites' = nwrites + 1
  /\ arg_cfg' = json_object_set_nocheck(
                  IF arg_cfg = NULL THEN json_object({}) ELSE arg_cfg,
                  name, val)
  /\ UNCHANGED global_cfg
  /\ out' = [NoOut EXCEPT !.op = "cfg_set_arg", !.name = name, !.val = val]

\* cfg_set_global with cfg_set_arg's body left unadapted: the write lands
\* in arg_cfg.
cfg_set_global_into_arg(name, val) ==
  /\ nwrites < MaxWrites
  /\ nwrites' = nwrites + 1
  /\ arg_cfg' = json_object_set_nocheck(
                  IF arg_cfg = NULL THEN json_object({}) ELSE arg_cfg,
                  name, val)
  /\ UNCHANGED global_cfg
  /\ out' = [NoOut EXCEPT !.op = "cfg_set_global", !.name = name, !.val = val]

cfg_set_global(name, val) ==
  /\ nwrites < MaxWrites
  /\ nwrites' = nwrites + 1
  /\ global_cfg' = json_object_set_nocheck(
                     IF global_cfg = NULL THEN json_object({}) ELSE global_cfg,
                     name, val)
  /\ UNCHANGED arg_cfg
  /\ out' = [NoOut EXCEPT !.op = "cfg_set_global", !.name = name, !.val = val]

cfg_get_raw(name, optr) ==
  IF optr # NULL THEN json_object_get(optr, name) ELSE NULL

\* cfg_get_json with the two layers consulted in the wrong order.
cfg_get_json_global_first(root, name) ==
  LET v1 == IF root # NULL /\ root.v # NULL
            THEN json_object_get(root.v, name) ELSE NULL
      v2 == IF v1 = NULL THEN cfg_get_raw(name, global_cfg) ELSE v1
      v3 == IF v2 = NULL THEN cfg_get_raw(name, arg_cfg) ELSE v2
  IN  v3

\* cfg_get_json taking a stored JSON null for "no value" at each source.
cfg_get_json_null_is_absent(root, name) ==
  LET present(v) == IF v = json_null THEN NULL ELSE v
      v1 == IF root # NULL /\ root.v # NULL
            THEN present(json_object_get(root.v, name)) ELSE NULL
      v2 == IF v1 = NULL THEN present(cfg_get_raw(name, arg_cfg)) ELSE v1
      v3 == IF v2 = NULL THEN present(cfg_get_raw(name, global_cfg)) ELSE v2
  IN  v3

\* cfg_get_json as a function of the three sources.
cfg_get_json(root, name) ==
  LET v1 == IF root # NULL /\ root.v # NULL
            THEN json_object_get(root.v, name) ELSE NULL
      v2 == IF v1 = NULL THEN cfg_get_raw(name, arg_cfg) ELSE v1
      v3 == IF v2 = NULL THEN cfg_get_raw(name, global_cfg) ELSE v2
  IN  v3

\* A caller's call of cfg_get_json.
call_cfg_get_json(root, name) ==
  /\ out' = [NoOut EXCEPT !.op = "cfg_get_json", !.root = root,
                          !.name = name, !.ret = cfg_get_json(root, name)]
  /\ UNCHANGED <<global_cfg, arg_cfg, nwrites>>

----------------------------------------------------------------------------
(* Typed accessors: the outcome of one call as a record *)

Call(op, root, name, defval) ==
  [NoOut EXCEPT !.op = op, !.root = root, !.name = name, !.defval = defval]

cfg_get_string(root, name, defval) ==
  LET val == cfg_get_json(root, name)
      o == Call("cfg_get_string", root, name, defval)
  IN  IF val # NULL
      THEN IF ~json_is_string(val) THEN w_log_FATAL(o)
           ELSE [o EXCEPT !.ret = json_string_value(val)]
      ELSE [o EXCEPT !.ret = defval]

cfg_get_int(root, name, defval) ==
  LET val == cfg_get_json(root, name)
      o == Call("cfg_get_int", root, name, defval)
  IN  IF val # NULL
      THEN IF ~json_is_integer(val) THEN w_log_FATAL(o)
           ELSE [o EXCEPT !.ret = json_integer_value(val)]
      ELSE [o EXCEPT !.ret = defval]

cfg_get_bool(root, name, defval) ==
  LET val == cfg_get_json(root, name)
      o == Call("cfg_get_bool", root, name, defval)
  IN  IF val # NULL
      THEN IF ~json_is_boolean(val) THEN w_log_FATAL(o)
           ELSE [o EXCEPT !.ret = c_bool(json_is_true(val))]
      ELSE [o EXCEPT !.ret = defval]

cfg_get_double(root, name, defval) ==
  LET val == cfg_get_json(root, name)
      o == Call("cfg_get_double", root, name, defval)
  IN  IF val # NULL
      THEN IF ~json_is_number(val) THEN w_log_FATAL(o)
           ELSE [o EXCEPT !.ret = json_real_value(val)]
      ELSE [o EXCEPT !.ret = defval]

call_cfg_get_string(root, name, defval) ==
  /\ out' = cfg_get_string(root, name, defval)
  /\ UNCHANGED <<global_cfg, arg_cfg, nwrites>>

call_cfg_get_int(root, name, defval) ==
  /\ out' = cfg_get_int(root, name, defval)
  /\ UNCHANGED <<global_cfg, arg_cfg, nwrites>>

call_cfg_get_bool(root, name, defval) ==
  /\ out' = cfg_get_bool(root, name, defval)
  /\ UNCHANGED <<global_cfg, arg_cfg, nwrites>>

call_cfg_get_double(root, name, defval) ==
  /\ out' = cfg_get_double(root, name, defval)
  /\ UNCHANGED <<global_cfg, arg_cfg, nwrites>>

----------------------------------------------------------------------------
(* Root marker list *)

WATCHMANCONFIG == json_string_nocheck(".watchmanconfig")

\* is_array_of_strings without the loop over the elements.
is_array_of_strings_shallow(ref) == json_is_array(ref)

is_array_of_strings(ref) ==
  /\ json_is_array(ref)
  /\ \A i \in 0 .. (json_array_size(ref) - 1) :
        json_is_string(json_array_get(ref, i))

\* prepend_watchmanconfig_to_array looking for the marker anywhere in the
\* array, as its comment words it, not at index 0 only.
prepend_unless_member(ref) ==
  IF \E i \in 1 .. json_array_size(ref) :
        ref.v[i] = json_string_nocheck(".watchmanconfig")
  THEN ref
  ELSE json_array(<<json_string_nocheck(".watchmanconfig")>> \o ref.v)

\* prepend_watchmanconfig_to_array without the empty-array case: the
\* insert at index 0 of an empty array fails and the array stays empty.
prepend_insert_only(ref) ==
  IF json_array_size(ref) = 0 THEN ref
  ELSE IF json_string_value(json_array_get(ref, 0)) = c_str(".watchmanconfig")
       THEN ref
       ELSE json_array(<<json_string_nocheck(".watchmanconfig")>> \o ref.v)

\* prepend_watchmanconfig_to_array without the test of element 0.
prepend_always(ref) ==
  json_array(<<json_string_nocheck(".watchmanconfig")>> \o ref.v)

\* The array ref points to after prepend_watchmanconfig_to_array(ref).
prepend_watchmanconfig_to_array(ref) ==
  IF json_array_size(ref) = 0
  THEN json_array(Append(ref.v, WATCHMANCONFIG))
  ELSE IF json_string_value(json_array_get(ref, 0)) = c_str(".watchmanconfig")
       THEN ref
       ELSE json_array(<<WATCHMANCONFIG>> \o ref.v)

\* The layers after the json_t that cfg_get_json(NULL, name) points to has
\* become newval: the entry lives in arg_cfg when that layer holds name,
\* in global_cfg otherwise.
StoredIn(name) ==
  IF cfg_get_raw(name, arg_cfg) # NULL THEN "arg_cfg" ELSE "global_cfg"

Mutated(obj, name, newval) ==
  json_object({IF e.key = name THEN Entry(name, newval) ELSE e : e \in obj.v})

InPlace(name, newval) ==
  [arg |-> IF StoredIn(name) = "arg_cfg"
           THEN Mutated(arg_cfg, name, newval) ELSE arg_cfg,
   global |-> IF StoredIn(name) = "global_cfg"
              THEN Mutated(global_cfg, name, newval) ELSE global_cfg]

Untouched == [arg |-> arg_cfg, global |-> global_cfg]

\* *enforcing after lines 170-179, enf being what enforce_root_files
\* resolves to (a boolean or NULL here).
EnforceRootFiles(enf) == IF enf # NULL THEN json_is_true(enf) ELSE FALSE

\* The legacy branch without the test of ignore_watchmanconfig.
LegacyArray_always_prepend(ignore_watchmanconfig, rrf) ==
  prepend_watchmanconfig_to_array(rrf)

\* The legacy array after lines 204-206.
LegacyArray(ignore_watchmanconfig, rrf) ==
  IF ~ignore_watchmanconfig THEN prepend_watchmanconfig_to_array(rrf) ELSE rrf

\* The legacy branch without line 208.
LegacyEnforcing_keep(enforcing) == enforcing

\* *enforcing after line 208.
LegacyEnforcing(enforcing) == TRUE

\* The default with the marker appended instead of first.
DefaultRootFiles_marker_last(ignore_watchmanconfig) ==
  IF ~ignore_watchmanconfig
  THEN json_array(<<json_string_nocheck(".hg"), json_string_nocheck(".git"),
                    json_string_nocheck(".svn"), WATCHMANCONFIG>>)
  ELSE json_array(<<json_string_nocheck(".hg"), json_string_nocheck(".git"),
                    json_string_nocheck(".svn")>>)

DefaultRootFiles(ignore_watchmanconfig) ==
  IF ~ignore_watchmanconfig
  THEN json_array(<<WATCHMANCONFIG, json_string_nocheck(".hg"),
                    json_string_nocheck(".git"), json_string_nocheck(".svn")>>)
  ELSE json_array(<<json_string_nocheck(".hg"), json_string_nocheck(".git"),
                    json_string_nocheck(".svn")>>)

\* cfg_compute_root_files: [o: what the call hands back, mem: the layers
\* after it].  Where the fatal log of lines 184 and 199 is followed by
\* code, o holds what that code hands back.
cfg_compute_root_files ==
  LET o0 == Call("cfg_compute_root_files", NULL, "", Void)
      ign == cfg_get_bool(NULL, "_ignore_watchmanconfig", c_bool(FALSE))
      ignore_watchmanconfig == ign.ret.v
      enf == cfg_get_json(NULL, "enforce_root_files")
      o == [o0 EXCEPT !.enforcing = EnforceRootFiles(enf)]
      rf == cfg_get_json(NULL, "root_files")
      rrf == cfg_get_json(NULL, "root_restrict_files")
  IN  IF ign.fatal THEN [o |-> w_log_FATAL(o0), mem |-> Untouched]
      ELSE IF enf # NULL /\ ~json_is_boolean(enf)
      THEN [o |-> w_log_FATAL(o0), mem |-> Untouched]
      ELSE IF rf # NULL
      THEN IF ~is_array_of_strings(rf)
           THEN [o |-> [w_log_FATAL(o0) EXCEPT !.enforcing = FALSE,
                                               !.ret = NULL],
                 mem |-> Untouched]
           ELSE [o |-> [o EXCEPT !.ret = prepend_watchmanconfig_to_array(rf)],
                 mem |-> InPlace("root_files",
                                 prepend_watchmanconfig_to_array(rf))]
      ELSE IF rrf # NULL
      THEN IF ~is_array_of_strings(rrf)
           THEN [o |-> [w_log_FATAL(o0) EXCEPT !.enforcing = FALSE,
                                               !.ret = NULL],
                 mem |-> Untouched]
           ELSE [o |-> [o EXCEPT
                          !.ret = LegacyArray(ignore_watchmanconfig, rrf),
                          !.enforcing = LegacyEnforcing(o.enforcing)],
                 mem |-> InPlace("root_restrict_files",
                                 LegacyArray(ignore_watchmanconfig, rrf))]
      ELSE [o |-> [o EXCEPT !.ret = DefaultRootFiles(ignore_watchmanconfig),
                            !.fresh = TRUE],
            mem |-> Untouched]

call_cfg_compute_root_files ==
  /\ out' = cfg_compute_root_files.o
  /\ arg_cfg' = cfg_compute_root_files.mem.arg
  /\ global_cfg' = cfg_compute_root_files.mem.global
  /\ UNCHANGED nwrites

----------------------------------------------------------------------------
(* Callers: the inputs each specification draws from *)

Str(s) == json_string_nocheck(s)

Names == {"troubleshooting_url", "root_files"}

Values ==
  {json_null, json_integer(7), json_array(<<Str("a")>>),
   json_object({Entry("x", json_integer(1))})}

Roots ==
  {NULL, w_root(NULL), w_root(json_object({})),
   w_root(json_object({Entry("troubleshooting_url", json_array(<<Str("b")>>))})),
   w_root(json_object({Entry("troubleshooting_url", json_object({Entry("y", json_true)})),
                       Entry("root_files", json_null)}))}

\* What json_load_file hands back: NULL (no file, unreadable, unparsable),
\* or the top-level object or array of the file.
ConfigFiles ==
  {NULL, json_object({Entry("troubleshooting_url", json_true)}), json_array(<<>>)}

SetGlobal == \E name \in Names, val \in Values : cfg_set_global(name, val)

SetArg == \E name \in Names, val \in Values : cfg_set_arg(name, val)

LoadGlobal == \E config \in ConfigFiles : cfg_load_global_config_file(config)

GetJson == \E root \in Roots, name \in Names : call_cfg_get_json(root, name)

Next ==
  \/ SetGlobal /\ Sequential
  \/ SetArg /\ Sequential
  \/ LoadGlobal /\ Sequential
  \/ GetJson /\ Sequential

Spec == Init /\ [][Next]_vars

\* Only the two setters and the resolver.
NextSet ==
  \/ SetGlobal /\ Sequential
  \/ SetArg /\ Sequential
  \/ GetJson /\ Sequential

SpecSet == Init /\ [][NextSet]_vars

\* Typed accessors over one key holding every variant.
TypedNames == {"troubleshooting_url"}

TypedValues ==
  {json_null, json_true, json_false, json_integer(7), json_real(25),
   Str("s"), json_array(<<Str("a")>>)}

TypedRoots ==
  {NULL, w_root(json_object({})),
   w_root(json_object({Entry("troubleshooting_url", Str("r"))})),
   w_root(json_object({Entry("troubleshooting_url", json_integer(9))}))}

TypedSetGlobal ==
  \E name \in TypedNames, val \in TypedValues : cfg_set_global(name, val)

TypedSetArg ==
  \E name \in TypedNames, val \in TypedValues : cfg_set_arg(name, val)

GetString ==
  \E root \in TypedRoots, name \in TypedNames :
     call_cfg_get_string(root, name, c_str("dflt"))

GetInt ==
  \E root \in TypedRoots, name \in TypedNames :
     call_cfg_get_int(root, name, c_int(42))

GetBool ==
  \E root \in TypedRoots, name \in TypedNames, b \in BOOLEAN :
     call_cfg_get_bool(root, name, c_bool(b))

GetDouble ==
  \E root \in TypedRoots, name \in TypedNames :
     call_cfg_get_double(root, name, c_double(15))

NextTyped ==
  \/ TypedSetGlobal /\ Sequential
  \/ TypedSetArg /\ Sequential
  \/ GetString /\ Sequential
  \/ GetInt /\ Sequential
  \/ GetBool /\ Sequential
  \/ GetDouble /\ Sequential

SpecTyped == Init /\ [][NextTyped]_vars

\* Root marker list: the four keys cfg_compute_root_files reads.
FlagNames == {"_ignore_watchmanconfig", "enforce_root_files"}

FlagValues == {json_true, json_false, Str("yes")}

ListNames == {"root_files", "root_restrict_files"}

ListValues ==
  {json_array(<<>>), json_array(<<Str("foo")>>),
   json_array(<<WATCHMANCONFIG, Str("foo")>>),
   json_array(<<Str("foo"), WATCHMANCONFIG>>),
   json_array(<<Str("foo"), json_integer(5)>>), Str("foo")}

RootFilesConfigFiles ==
  {NULL,
   json_object({Entry("root_files", json_array(<<Str("bar")>>)),
                Entry("root_restrict_files", json_array(<<Str("baz")>>)),
                Entry("enforce_root_files", json_true)}),
   json_object({Entry("root_restrict_files", json_array(<<Str("baz")>>)),
                Entry("_ignore_watchmanconfig", json_true)})}

RootFilesSetGlobal ==
  \/ \E name \in FlagNames, val \in FlagValues : cfg_set_global(name, val)
  \/ \E name \in ListNames, val \in ListValues : cfg_set_global(name, val)

RootFilesSetArg ==
  \/ \E name \in FlagNames, val \in FlagValues : cfg_set_arg(name, val)
  \/ \E name \in ListNames, val \in ListValues : cfg_set_arg(name, val)

RootFilesLoadGlobal ==
  \E config \in RootFilesConfigFiles : cfg_load_global_config_file(config)

ComputeRootFiles == call_cfg_compute_root_files

NextRootFiles ==
  \/ RootFilesSetGlobal /\ Sequential
  \/ RootFilesSetArg /\ Sequential
  \/ RootFilesLoadGlobal /\ Sequential
  \/ ComputeRootFiles /\ Sequential

SpecRootFiles == Init /\ [][NextRootFiles]_vars

----------------------------------------------------------------------------
(* prepend_watchmanconfig_to_array on its own *)

MarkerNames == {".watchmanconfig", "foo", "bar"}

\* Every array of at most MaxArrayLen strings over MarkerNames.
StringArrays ==
  {json_array(a) :
     a \in UNION {[1 .. n -> {Str(m) : m \in MarkerNames}] :
                    n \in 0 .. MaxArrayLen}}

InitPrepend ==
  /\ global_cfg = NULL
  /\ arg_cfg = NULL
  /\ nwrites = 0
  /\ \E ref \in StringArrays : out = [NoOut EXCEPT !.val = ref]
  /\ cfg_lock = Unlocked
  /\ threads = [t \in Threads |-> Idle]
  /\ released = {}
  /\ ncalls = 0

call_prepend_watchmanconfig_to_array ==
  /\ out.op = "none"
  /\ out' = [out EXCEPT !.op = "prepend_watchmanconfig_to_array",
                        !.ret = prepend_watchmanconfig_to_array(out.val)]
  /\ UNCHANGED <<global_cfg, arg_cfg, nwrites>>

NextPrepend == call_prepend_watchmanconfig_to_array /\ Sequential

SpecPrepend == InitPrepend /\ [][NextPrepend]_vars

----------------------------------------------------------------------------
(* cfg_compute_root_files called repeatedly *)

Uncounted == ncalls' = 0 /\ UNCHANGED <<cfg_lock, threads, released>>

Counted ==
  /\ ncalls' = IF ncalls < MaxCalls THEN ncalls + 1 ELSE ncalls
  /\ UNCHANGED <<cfg_lock, threads, released>>

NextRepeat ==
  \/ RootFilesSetGlobal /\ Uncounted
  \/ RootFilesSetArg /\ Uncounted
  \/ RootFilesLoadGlobal /\ Uncounted
  \/ ComputeRootFiles /\ Counted

SpecRepeat == Init /\ [][NextRepeat]_vars

----------------------------------------------------------------------------
(* Shutdown *)

Layers == {"global_cfg", "arg_cfg"}

LayerPtr(layer) == IF layer = "global_cfg" THEN global_cfg ELSE arg_cfg

\* The reference count of the object a layer pointer points to: json_object
\* and json_load_file hand back one reference, cfg.c takes no other, and
\* json_decref frees the object when the count drops to zero.
refcount(layer) ==
  IF LayerPtr(layer) = NULL \/ layer \in released THEN 0 ELSE 1

\* cfg_shutdown: json_decref on each layer pointer that is not NULL; the
\* pointers themselves are not written.
cfg_shutdown ==
  /\ released' = released \cup {layer \in Layers : LayerPtr(layer) # NULL}
  /\ UNCHANGED <<global_cfg, arg_cfg, nwrites>>
  /\ out' = [NoOut EXCEPT !.op = "cfg_shutdown"]

\* The layers whose object cfg_get_json(root, name) reads: arg_cfg when the
\* root view has no value, global_cfg when arg_cfg has none either.
LayersRead(root, name) ==
  LET v1 == IF root # NULL /\ root.v # NULL
            THEN json_object_get(root.v, name) ELSE NULL
  IN  IF v1 # NULL THEN {}
      ELSE {layer \in {"arg_cfg"} : arg_cfg # NULL}
             \cup {layer \in {"global_cfg"} :
                     cfg_get_raw(name, arg_cfg) = NULL /\ global_cfg # NULL}

\* A call of cfg_get_json at any time of the process's life: reading a
\* freed object is undefined, the call may hand back anything.
call_cfg_get_json_anytime(root, name) ==
  /\ \E ret \in IF LayersRead(root, name) \cap released # {}
                THEN Values \cup {NULL} ELSE {cfg_get_json(root, name)} :
       out' = [NoOut EXCEPT !.op = "cfg_get_json", !.root = root,
                            !.name = name, !.ret = ret]
  /\ UNCHANGED <<global_cfg, arg_cfg, nwrites>>

\* Callers write only before shutdown and call cfg_shutdown once.
Running == released = {}

KeepsLock == UNCHANGED <<cfg_lock, threads, ncalls>>

NextShutdown ==
  \/ Running /\ SetGlobal /\ Sequential
  \/ Running /\ SetArg /\ Sequential
  \/ Running /\ LoadGlobal /\ Sequential
  \/ Running /\ cfg_shutdown /\ KeepsLock
  \/ \E root \in Roots, name \in Names :
        call_cfg_get_json_anytime(root, name) /\ Sequential

SpecShutdown == Init /\ [][NextShutdown]_vars

----------------------------------------------------------------------------
(* Calls run statement by statement on concurrent threads *)

PerThread == UNCHANGED <<nwrites, out, released, ncalls>>

LayerOf(op) == IF op = "cfg_set_global" THEN "global_cfg" ELSE "arg_cfg"

\* What a key resolves to without a root view, given the two layers.
Effective(name, arg, global) ==
  IF cfg_get_raw(name, arg) # NULL THEN cfg_get_raw(name, arg)
  ELSE cfg_get_raw(name, global)

Lookups == {"cfg_get_json", "cfg_get_string"}

\* History kept for a lookup in progress when the layers become arg, global.
Observed(r, arg, global) ==
  IF r.op \in Lookups /\ r.pc \notin {"idle", "done"}
  THEN [r EXCEPT !.seen = @ \cup {Effective(r.name, arg, global)}]
  ELSE r

\* Thread t stores obj in the layer pointer and goes on as record r.
StoreLayer(t, layer, obj, r) ==
  /\ global_cfg' = IF layer = "global_cfg" THEN obj ELSE global_cfg
  /\ arg_cfg' = IF layer = "arg_cfg" THEN obj ELSE arg_cfg
  /\ threads' = [u \in Threads |->
                   IF u = t THEN r
                   ELSE Observed(threads[u], arg_cfg', global_cfg')]

\* cfg_set_arg / cfg_set_global, lines 51-61 and 63-73.
start_cfg_set(t, op, name, val) ==
  /\ threads[t].pc = "idle"
  /\ threads' = [threads EXCEPT ![t] =
                   [Idle EXCEPT !.pc = "set_wrlock", !.op = op,
                                !.layer = LayerOf(op), !.name = name,
                                !.val = val]]
  /\ UNCHANGED <<global_cfg, arg_cfg, cfg_lock>>
  /\ PerThread

\* The setter taking cfg_lock with pthread_rwlock_rdlock, as cfg_get_raw
\* does.
set_rdlock(t) ==
  /\ threads[t].pc = "set_wrlock"
  /\ cfg_lock.writer = 0
  /\ cfg_lock' = [cfg_lock EXCEPT !.readers = @ \cup {t}]
  /\ threads' = [threads EXCEPT ![t].pc = "set_test"]
  /\ UNCHANGED <<global_cfg, arg_cfg>>
  /\ PerThread

\* pthread_rwlock_wrlock(&cfg_lock), lines 53 and 65.
set_wrlock(t) ==
  /\ threads[t].pc = "set_wrlock"
  /\ cfg_lock.writer = 0
  /\ cfg_lock.readers = {}
  /\ cfg_lock' = [cfg_lock EXCEPT !.writer = t]
  /\ threads' = [threads EXCEPT ![t].pc = "set_test"]
  /\ UNCHANGED <<global_cfg, arg_cfg>>
  /\ PerThread

\* if (!arg_cfg), lines 54 and 66.
set_test(t) ==
  /\ threads[t].pc = "set_test"
  /\ threads' = [threads EXCEPT
                   ![t].isnull = LayerPtr(threads[t].layer) = NULL,
                   ![t].pc = IF LayerPtr(threads[t].layer) = NULL
                             THEN "set_create" ELSE "set_insert"]
  /\ UNCHANGED <<global_cfg, arg_cfg, cfg_lock>>
  /\ PerThread

\* arg_cfg = json_object(), lines 55 and 67.
set_create(t) ==
  /\ threads[t].pc = "set_create"
  /\ StoreLayer(t, threads[t].layer, json_object({}),
                [threads[t] EXCEPT !.pc = "set_insert"])
  /\ UNCHANGED cfg_lock
  /\ PerThread

\* json_object_set_nocheck(arg_cfg, name, val), lines 58 and 70.
set_insert(t) ==
  /\ threads[t].pc = "set_insert"
  /\ StoreLayer(t, threads[t].layer,
                json_object_set_nocheck(LayerPtr(threads[t].layer),
                                        threads[t].name, threads[t].val),
                [threads[t] EXCEPT !.pc = "set_unlock"])
  /\ UNCHANGED cfg_lock
  /\ PerThread

\* pthread_rwlock_unlock(&cfg_lock), lines 60 and 72.
set_unlock(t) ==
  /\ threads[t].pc = "set_unlock"
  /\ cfg_lock' = [writer |-> IF cfg_lock.writer = t THEN 0
                             ELSE cfg_lock.writer,
                  readers |-> cfg_lock.readers \ {t}]
  /\ threads' = [threads EXCEPT ![t].pc = "done"]
  /\ UNCHANGED <<global_cfg, arg_cfg>>
  /\ PerThread

\* cfg_get_json(NULL, name), line 89-97: no root view, so on to
\* cfg_get_raw(name, &arg_cfg).
EnterGetJson(r, name) ==
  [r EXCEPT !.pc = "raw_rdlock", !.layer = "arg_cfg", !.name = name,
            !.val = NULL]

start_cfg_get_string(t, name) ==
  /\ threads[t].pc = "idle"
  /\ threads' = [threads EXCEPT ![t] =
                   [EnterGetJson(Idle, name) EXCEPT
                      !.op = "cfg_get_string",
                      !.seen = {Effective(name, arg_cfg, global_cfg)}]]
  /\ UNCHANGED <<global_cfg, arg_cfg, cfg_lock>>
  /\ PerThread

\* pthread_rwlock_rdlock(&cfg_lock), line 79.
raw_rdlock(t) ==
  /\ threads[t].pc = "raw_rdlock"
  /\ cfg_lock.writer = 0
  /\ cfg_lock' = [cfg_lock EXCEPT !.readers = @ \cup {t}]
  /\ threads' = [threads EXCEPT ![t].pc = "raw_get"]
  /\ UNCHANGED <<global_cfg, arg_cfg>>
  /\ PerThread

\* if (*optr) val = json_object_get(*optr, name), lines 80-82.
raw_get(t) ==
  /\ threads[t].pc = "raw_get"
  /\ threads' = [threads EXCEPT
                   ![t].val = cfg_get_raw(threads[t].name,
                                          LayerPtr(threads[t].layer)),
                   ![t].pc = "raw_unlock"]
  /\ UNCHANGED <<global_cfg, arg_cfg, cfg_lock>>
  /\ PerThread

\* Where cfg_get_json's caller goes on once cfg_get_json has returned.
AfterGetJson(r) ==
  CASE r.op = "cfg_get_string" -> "string_check"
    [] r.op = "cfg_compute_root_files" ->
         (CASE r.name = "_ignore_watchmanconfig" -> "compute_ignore"
            [] r.name = "enforce_root_files" -> "compute_enforce"
            [] r.name = "root_files" -> "compute_root_files"
            [] OTHER -> "compute_restrict_files")
    [] OTHER -> "done"

\* pthread_rwlock_unlock and return val, lines 83-84, then cfg_get_json,
\* lines 99-103: on to the global layer after a miss in arg_cfg, else back
\* to the caller.
raw_unlock(t) ==
  /\ threads[t].pc = "raw_unlock"
  /\ cfg_lock' = [writer |-> IF cfg_lock.writer = t THEN 0
                             ELSE cfg_lock.writer,
                  readers |-> cfg_lock.readers \ {t}]
  /\ threads' = [threads EXCEPT ![t] =
                   IF threads[t].layer = "arg_cfg" /\ threads[t].val = NULL
                   THEN [threads[t] EXCEPT !.layer = "global_cfg",
                                           !.pc = "raw_rdlock"]
                   ELSE [threads[t] EXCEPT !.pc = AfterGetJson(threads[t])]]
  /\ UNCHANGED <<global_cfg, arg_cfg>>
  /\ PerThread

\* What cfg_get_string makes of val, lines 111-118.
StringOf(val, defval) ==
  IF val # NULL
  THEN IF ~json_is_string(val) THEN NoReturn ELSE json_string_value(val)
  ELSE defval

\* cfg_get_string, lines 111-118: val is read with no lock held and no
\* reference taken.  Once the layer has dropped val the json_t may be
\* freed, and the read may yield anything.
string_check(t) ==
  /\ threads[t].pc = "string_check"
  /\ LET r == threads[t]
         held == r.val = NULL
                   \/ cfg_get_raw(r.name, LayerPtr(r.layer)) = r.val
     IN  \E ret \in IF held THEN {StringOf(r.val, c_str("dflt"))}
                    ELSE {StringOf(r.val, c_str("dflt")), NoReturn,
                          c_str("")} :
            threads' = [threads EXCEPT ![t].held = held, ![t].ret = ret,
                                       ![t].pc = "done"]
  /\ UNCHANGED <<global_cfg, arg_cfg, cfg_lock>>
  /\ PerThread

\* The json_t thread t passes to a setter: each call passes a json_t of its
\* own, so that a value names the json_t.
ValueOf(t) ==
  CASE t = 1 -> Str("va") [] t = 2 -> Str("vb") [] t = 3 -> Str("vc")
    [] OTHER -> Str("vd")

Setters == {"cfg_set_global", "cfg_set_arg"}

StartSet ==
  \E t \in Threads, op \in Setters, name \in Names :
     start_cfg_set(t, op, name, ValueOf(t))

StartGetString ==
  \E t \in Threads, name \in Names : start_cfg_get_string(t, name)

SetSteps ==
  \E t \in Threads :
     \/ set_wrlock(t)
     \/ set_test(t)
     \/ set_create(t)
     \/ set_insert(t)
     \/ set_unlock(t)

RawSteps == \E t \in Threads : raw_rdlock(t) \/ raw_get(t) \/ raw_unlock(t)

StringSteps == \E t \in Threads : string_check(t)

NextThreads ==
  StartSet \/ StartGetString \/ SetSteps \/ RawSteps \/ StringSteps

SpecThreads == Init /\ [][NextThreads]_vars

\* cfg_compute_root_files, statement by statement.  ref points into the
\* layer that supplied it: the array it points to is the entry of
\* threads[t].name in threads[t].layer as it is when the statement runs.
start_cfg_compute_root_files(t) ==
  /\ threads[t].pc = "idle"
  /\ threads' = [threads EXCEPT ![t] =
                   [EnterGetJson(Idle, "_ignore_watchmanconfig") EXCEPT
                      !.op = "cfg_compute_root_files"]]
  /\ UNCHANGED <<global_cfg, arg_cfg, cfg_lock>>
  /\ PerThread

\* cfg_get_bool(NULL, "_ignore_watchmanconfig", false), lines 167-168 and
\* 240-247, *enforcing = false, line 170, and on to line 172.
compute_ignore(t) ==
  /\ threads[t].pc = "compute_ignore"
  /\ LET r == threads[t]
     IN  threads' = [threads EXCEPT ![t] =
           IF r.val # NULL /\ ~json_is_boolean(r.val)
           THEN [r EXCEPT !.pc = "done", !.ret = NoReturn]
           ELSE [EnterGetJson(r, "enforce_root_files") EXCEPT
                   !.ignore = r.val # NULL /\ json_is_true(r.val),
                   !.enforcing = FALSE]]
  /\ UNCHANGED <<global_cfg, arg_cfg, cfg_lock>>
  /\ PerThread

\* Lines 173-179, and on to line 181.
compute_enforce(t) ==
  /\ threads[t].pc = "compute_enforce"
  /\ LET r == threads[t]
     IN  threads' = [threads EXCEPT ![t] =
           IF r.val # NULL /\ ~json_is_boolean(r.val)
           THEN [r EXCEPT !.pc = "done", !.ret = NoReturn]
           ELSE [EnterGetJson(r, "root_files") EXCEPT
                   !.enforcing = EnforceRootFiles(r.val)]]
  /\ UNCHANGED <<global_cfg, arg_cfg, cfg_lock>>
  /\ PerThread

\* The array ref points to.
Deref(r) == cfg_get_raw(r.name, LayerPtr(r.layer))

\* Lines 182-188: is_array_of_strings(ref) reads the stored array; on to
\* prepend_watchmanconfig_to_array, or to line 196 when ref is NULL.
compute_root_files(t) ==
  /\ threads[t].pc = "compute_root_files"
  /\ LET r == threads[t]
     IN  threads' = [threads EXCEPT ![t] =
           IF r.val = NULL THEN EnterGetJson(r, "root_restrict_files")
           ELSE IF ~is_array_of_strings(Deref(r))
           THEN [r EXCEPT !.pc = "done", !.ret = NULL, !.enforcing = FALSE]
           ELSE [r EXCEPT !.pc = "prepend_test"]]
  /\ UNCHANGED <<global_cfg, arg_cfg, cfg_lock>>
  /\ PerThread

\* Lines 197-209 up to the prepend, and the default of lines 214-218.
compute_restrict_files(t) ==
  /\ threads[t].pc = "compute_restrict_files"
  /\ LET r == threads[t]
     IN  threads' = [threads EXCEPT ![t] =
           IF r.val = NULL
           THEN [r EXCEPT !.pc = "done", !.ret = DefaultRootFiles(r.ignore)]
           ELSE IF ~is_array_of_strings(Deref(r))
           THEN [r EXCEPT !.pc = "done", !.ret = NULL, !.enforcing = FALSE]
           ELSE IF ~r.ignore THEN [r EXCEPT !.pc = "prepend_test"]
           ELSE [r EXCEPT !.pc = "done", !.ret = Deref(r),
                          !.enforcing = TRUE]]
  /\ UNCHANGED <<global_cfg, arg_cfg, cfg_lock>>
  /\ PerThread

\* The caller's thread once prepend_watchmanconfig_to_array has returned
\* and ref holds array: lines 191-192 and 207-209.
Returned(r, array) ==
  [r EXCEPT !.pc = "done", !.ret = array,
            !.enforcing = IF r.name = "root_restrict_files" THEN TRUE
                          ELSE r.enforcing]

\* prepend_watchmanconfig_to_array, lines 142 and 149-152: the tests of
\* the size and of element 0.
prepend_test(t) ==
  /\ threads[t].pc = "prepend_test"
  /\ LET r == threads[t]
     IN  threads' = [threads EXCEPT ![t] =
           IF json_array_size(Deref(r)) = 0
           THEN [r EXCEPT !.pc = "prepend_append"]
           ELSE IF json_string_value(json_array_get(Deref(r), 0))
                     = c_str(".watchmanconfig")
           THEN Returned(r, Deref(r))
           ELSE [r EXCEPT !.pc = "prepend_insert"]]
  /\ UNCHANGED <<global_cfg, arg_cfg, cfg_lock>>
  /\ PerThread

\* json_array_append_new(ref, ...), line 145.
prepend_append(t) ==
  /\ threads[t].pc = "prepend_append"
  /\ LET r == threads[t]
         array == json_array(Append(Deref(r).v, WATCHMANCONFIG))
     IN  StoreLayer(t, r.layer, Mutated(LayerPtr(r.layer), r.name, array),
                    Returned(r, array))
  /\ UNCHANGED cfg_lock
  /\ PerThread

\* json_array_insert_new(ref, 0, ...), line 153.
prepend_insert(t) ==
  /\ threads[t].pc = "prepend_insert"
  /\ LET r == threads[t]
         array == json_array(<<WATCHMANCONFIG>> \o Deref(r).v)
     IN  StoreLayer(t, r.layer, Mutated(LayerPtr(r.layer), r.name, array),
                    Returned(r, array))
  /\ UNCHANGED cfg_lock
  /\ PerThread

\* The configuration the threads start from: what the file load and the
\* command line have set before the threads run.
StartGlobals ==
  {json_object({Entry("root_files", json_array(<<Str("foo")>>))}),
   json_object({Entry("root_files", json_array(<<>>)),
                Entry("enforce_root_files", json_true)}),
   json_object({Entry("root_restrict_files",
                      json_array(<<Str("foo"), Str("bar")>>))})}

StartArgs ==
  {NULL, json_object({Entry("root_files", json_array(<<Str("bar")>>))})}

InitThreadsRootFiles ==
  /\ global_cfg \in StartGlobals
  /\ arg_cfg \in StartArgs
  /\ nwrites = 0
  /\ out = NoOut
  /\ cfg_lock = Unlocked
  /\ threads = [t \in Threads |-> Idle]
  /\ released = {}
  /\ ncalls = 0

\* Setters running beside cfg_compute_root_files write a key it does not
\* read.
StartSetOther ==
  \E t \in Threads, op \in Setters :
     start_cfg_set(t, op, "troubleshooting_url", ValueOf(t))

StartCompute == \E t \in Threads : start_cfg_compute_root_files(t)

ComputeSteps ==
  \E t \in Threads :
     \/ compute_ignore(t)
     \/ compute_enforce(t)
     \/ compute_root_files(t)
     \/ compute_restrict_files(t)

PrependSteps ==
  \E t \in Threads :
     \/ prepend_test(t)
     \/ prepend_append(t)
     \/ prepend_insert(t)

NextThreadsRootFiles ==
  StartSetOther \/ StartCompute \/ SetSteps \/ RawSteps \/ ComputeSteps
    \/ PrependSteps

SpecThreadsRootFiles == InitThreadsRootFiles /\ [][NextThreadsRootFiles]_vars

----------------------------------------------------------------------------
(* Reference definitions the properties are stated with: the three sources *)
(* read entry by entry, independently of cfg_get_json.                     *)

HasKey(layer, name) ==
  /\ layer # NULL
  /\ layer.t = "object"
  /\ \E e \in layer.v : e.key = name

ValueAt(layer, name) == (CHOOSE e \in layer.v : e.key = name).val

RootView(root) == IF root = NULL THEN NULL ELSE root.v

Resolved(root, name) ==
  IF HasKey(RootView(root), name) THEN ValueAt(RootView(root), name)
  ELSE IF HasKey(arg_cfg, name) THEN ValueAt(arg_cfg, name)
  ELSE IF HasKey(global_cfg, name) THEN ValueAt(global_cfg, name)
  ELSE NULL

EntriesOf(layer) ==
  IF layer # NULL /\ layer.t = "object" THEN layer.v ELSE {}

IsStringArray(x) ==
  /\ x.t = "array"
  /\ \A i \in 1 .. Len(x.v) : x.v[i].t = "string"

Marker == [t |-> "string", v |-> ".watchmanconfig"]

HgGitSvn ==
  <<[t |-> "string", v |-> ".hg"], [t |-> "string", v |-> ".git"],
    [t |-> "string", v |-> ".svn"]>>

StartsWithMarker(x) ==
  /\ x.t = "array"
  /\ Len(x.v) >= 1
  /\ x.v[1] = Marker

Computed == out.op = "cfg_compute_root_files"

IgnoreFlag == Resolved(NULL, "_ignore_watchmanconfig")

EnforceFlag == Resolved(NULL, "enforce_root_files")

RootFilesValue == Resolved(NULL, "root_files")

RestrictFilesValue == Resolved(NULL, "root_restrict_files")

Booleans == {[t |-> "true", v |-> 0], [t |-> "false", v |-> 0]}

\* Both boolean keys read by cfg_compute_root_files are booleans or absent.
FlagsValid ==
  /\ IgnoreFlag \in Booleans \cup {NULL}
  /\ EnforceFlag \in Booleans \cup {NULL}

\* The key that is consulted (root_files, or root_restrict_files when
\* root_files is absent) is absent or an array of strings.
ConsultedValid ==
  IF RootFilesValue # NULL THEN IsStringArray(RootFilesValue)
  ELSE RestrictFilesValue = NULL \/ IsStringArray(RestrictFilesValue)

ConsultedInvalid ==
  IF RootFilesValue # NULL THEN ~IsStringArray(RootFilesValue)
  ELSE RestrictFilesValue # NULL /\ ~IsStringArray(RestrictFilesValue)

----------------------------------------------------------------------------
(* C1 *)

\* C1: cfg_get_json returns the root view's value when a root view is
\* supplied and holds the key, else the argument layer's, else the global
\* layer's, else nothing (NULL); the value is the winning source's own
\* value, whole.
C1_Precedence ==
  out.op = "cfg_get_json" => out.ret = Resolved(out.root, out.name)

\* The key is held by all three sources, with three different values, and
\* the call handed back the root view's.
C1_Witness ==
  /\ out.op = "cfg_get_json"
  /\ HasKey(RootView(out.root), out.name)
  /\ HasKey(arg_cfg, out.name)
  /\ HasKey(global_cfg, out.name)
  /\ ValueAt(arg_cfg, out.name) # ValueAt(global_cfg, out.name)
  /\ ValueAt(RootView(out.root), out.name) # ValueAt(arg_cfg, out.name)
  /\ out.ret = ValueAt(RootView(out.root), out.name)

----------------------------------------------------------------------------
(* C2, C3 *)

Accessors ==
  {"cfg_get_string", "cfg_get_int", "cfg_get_bool", "cfg_get_double"}

\* The variant each accessor asks for.
Requested(op, val) ==
  CASE op = "cfg_get_string" -> val.t = "string"
    [] op = "cfg_get_int" -> val.t = "integer"
    [] op = "cfg_get_bool" -> val.t \in {"true", "false"}
    [] op = "cfg_get_double" -> val.t = "real"

\* C2: a typed accessor whose key resolves to a value of another variant
\* than the one it asks for takes the fatal path and hands nothing back
\* (neither the default nor any other value); the default is handed back
\* only when the key is absent from all three sources.
C2_MismatchIsFatal ==
  out.op \in Accessors =>
    LET r == Resolved(out.root, out.name)
    IN  /\ (r # NULL /\ ~Requested(out.op, r)) =>
              (out.fatal /\ out.ret = NoReturn)
        /\ (r = NULL) => (~out.fatal /\ out.ret = out.defval)

\* C3: cfg_get_int on a key that resolves to a real is fatal, and
\* cfg_get_double on a key that resolves to an integer is fatal; neither
\* hands a number back.
C3_ExactNumericVariant ==
  LET r == Resolved(out.root, out.name)
  IN  /\ (out.op = "cfg_get_int" /\ r # NULL /\ r.t = "real") =>
            (out.fatal /\ out.ret = NoReturn)
      /\ (out.op = "cfg_get_double" /\ r # NULL /\ r.t = "integer") =>
            (out.fatal /\ out.ret = NoReturn)

----------------------------------------------------------------------------
(* C4 - C9 *)

\* C4: when _ignore_watchmanconfig is false or absent and the consulted
\* key is a valid array of strings or absent (enforce_root_files being a
\* boolean or absent, so that the call returns), cfg_compute_root_files
\* returns a non-empty array whose element 0 is ".watchmanconfig".
C4_MarkerFirst ==
  (/\ Computed
   /\ IgnoreFlag \in {NULL, [t |-> "false", v |-> 0]}
   /\ EnforceFlag \in Booleans \cup {NULL}
   /\ ConsultedValid)
  => (~out.fatal /\ StartsWithMarker(out.ret))

\* The legacy key supplied the array, which was stored without the marker
\* at index 0 by a setter, and the call returned it with the marker first.
C4_Witness ==
  /\ Computed
  /\ IgnoreFlag = [t |-> "false", v |-> 0]
  /\ RootFilesValue = NULL
  /\ RestrictFilesValue # NULL
  /\ ~out.fatal
  /\ out.ret.v = <<Marker, [t |-> "string", v |-> "foo"], Marker>>

\* C5: every non-NULL array cfg_compute_root_files returns lists
\* ".watchmanconfig" as its zeroth element, whatever the value of
\* _ignore_watchmanconfig and whichever branch is taken.
C5_ReturnedArrayStartsWithMarker ==
  (Computed /\ ~out.fatal /\ out.ret # NULL) => StartsWithMarker(out.ret)

\* The array that a call finds configured: root_files, else
\* root_restrict_files, else the default without the marker.
Configured ==
  IF RootFilesValue # NULL THEN RootFilesValue
  ELSE IF RestrictFilesValue # NULL THEN RestrictFilesValue
  ELSE [t |-> "array", v |-> HgGitSvn]

WithMarkerFirst(a) ==
  IF Len(a) >= 1 /\ a[1] = Marker THEN a ELSE <<Marker>> \o a

OptedOut == IgnoreFlag = [t |-> "true", v |-> 0]

C7_Enforcing ==
  (Computed /\ ~out.fatal) =>
    out.enforcing =
      IF RootFilesValue = NULL /\ RestrictFilesValue # NULL THEN TRUE
      ELSE EnforceFlag = [t |-> "true", v |-> 0]

\* enforce_root_files is explicitly false, only the legacy key is set, and
\* the call returned enforcing = true.
C7_Witness ==
  /\ Computed
  /\ ~out.fatal
  /\ EnforceFlag = [t |-> "false", v |-> 0]
  /\ RootFilesValue = NULL
  /\ RestrictFilesValue # NULL
  /\ out.enforcing

\* C8: when the consulted key holds something that is not an array of
\* strings (the two boolean keys being booleans or absent), the call
\* signals the fatal error, yields NULL with enforcing = false, and leaves
\* both layers as they were.
C8_BadArrayIsFatal ==
  [][(out'.op = "cfg_compute_root_files" /\ FlagsValid /\ ConsultedInvalid)
       => /\ out'.fatal
          /\ out'.ret = NULL
          /\ out'.enforcing = FALSE
          /\ arg_cfg' = arg_cfg
          /\ global_cfg' = global_cfg]_vars

\* root_files holds a non-string element while enforce_root_files is true
\* and a valid root_restrict_files is present: fatal, NULL, not enforcing.
C8_Witness ==
  /\ Computed
  /\ EnforceFlag = [t |-> "true", v |-> 0]
  /\ RootFilesValue # NULL
  /\ RootFilesValue.t = "array"
  /\ ~IsStringArray(RootFilesValue)
  /\ RestrictFilesValue # NULL
  /\ IsStringArray(RestrictFilesValue)
  /\ out.fatal
  /\ out.ret = NULL
  /\ ~out.enforcing

----------------------------------------------------------------------------
(* C10 *)

OtherEntries(layer, name) == {e \in EntriesOf(layer) : e.key # name}

\* C10: a setter leaves in its layer exactly one entry for the key it
\* wrote, holding the written value, leaves every other entry of that
\* layer and the whole other layer as they were; no layer ever holds two
\* entries for one key.
C10_SetFrame ==
  [][/\ out'.op = "cfg_set_global" =>
          /\ {e \in EntriesOf(global_cfg') : e.key = out'.name}
               = {[key |-> out'.name, val |-> out'.val]}
          /\ OtherEntries(global_cfg', out'.name)
               = OtherEntries(global_cfg, out'.name)
          /\ arg_cfg' = arg_cfg
     /\ out'.op = "cfg_set_arg" =>
          /\ {e \in EntriesOf(arg_cfg') : e.key = out'.name}
               = {[key |-> out'.name, val |-> out'.val]}
          /\ OtherEntries(arg_cfg', out'.name)
               = OtherEntries(arg_cfg, out'.name)
          /\ global_cfg' = global_cfg]_vars

\* Three writes went to the global layer, at least two of them to the same
\* key, and the layer holds one entry per key written, the last write's
\* value under its key.
C10_Witness ==
  /\ out.op = "cfg_set_global"
  /\ nwrites >= 3
  /\ arg_cfg = NULL
  /\ Cardinality(EntriesOf(global_cfg)) = 2
  /\ ValueAt(global_cfg, out.name) = out.val

----------------------------------------------------------------------------
(* C13 *)

\* C13: once a layer exists no call makes it absent or drops a key from
\* it: every key a layer holds before a call is still held by that layer
\* after the call (with the same value unless that call wrote the key).
C13_LayerNeverReplaced ==
  [][/\ global_cfg # NULL => global_cfg' # NULL
     /\ arg_cfg # NULL => arg_cfg' # NULL
     /\ \A e \in EntriesOf(global_cfg) : HasKey(global_cfg', e.key)
     /\ \A e \in EntriesOf(arg_cfg) : HasKey(arg_cfg', e.key)]_vars

----------------------------------------------------------------------------
(* C14 *)

Pointer(layer) == IF layer = "global_cfg" THEN global_cfg ELSE arg_cfg

Count(layer, freed) ==
  IF Pointer(layer) = NULL \/ layer \in freed THEN 0 ELSE 1

\* C14: a call of cfg_shutdown drops the reference count of each existing
\* layer by exactly one and leaves an absent layer alone; after it the
\* core keeps no pointer to a freed layer, and no later cfg_get_json reads
\* a freed layer.
C14_ShutdownReleases ==
  [][/\ out'.op = "cfg_shutdown" =>
          \A layer \in {"global_cfg", "arg_cfg"} :
             /\ Count(layer, released') =
                  IF Pointer(layer) # NULL THEN Count(layer, released) - 1
                  ELSE Count(layer, released)
             /\ layer \in released' =>
                  (IF layer = "global_cfg" THEN global_cfg' ELSE arg_cfg')
                    = NULL
     /\ out'.op = "cfg_get_json" =>
          \A layer \in released :
             \/ HasKey(RootView(out'.root), out'.name)
             \/ layer = "global_cfg" /\ HasKey(arg_cfg, out'.name)]_vars

----------------------------------------------------------------------------
(* C15 *)

\* C15: a key stored with a JSON null counts as present: cfg_get_json
\* hands back that null, which is not NULL, and does not go on to a lower
\* source; it hands back NULL only when no source has an entry for the key.
C15_NullIsPresent ==
  out.op = "cfg_get_json" =>
    /\ (out.ret = NULL) <=>
          (/\ ~HasKey(RootView(out.root), out.name)
           /\ ~HasKey(arg_cfg, out.name)
           /\ ~HasKey(global_cfg, out.name))
    /\ Resolved(out.root, out.name) = [t |-> "null", v |-> 0] =>
          (out.ret = [t |-> "null", v |-> 0] /\ out.ret # NULL)

\* The root view holds null for the key, both layers hold something else,
\* and the call handed back the null.
C15_Witness ==
  /\ out.op = "cfg_get_json"
  /\ HasKey(RootView(out.root), out.name)
  /\ ValueAt(RootView(out.root), out.name) = [t |-> "null", v |-> 0]
  /\ HasKey(arg_cfg, out.name)
  /\ ValueAt(arg_cfg, out.name).t = "integer"
  /\ HasKey(global_cfg, out.name)
  /\ ValueAt(global_cfg, out.name).t = "array"
  /\ out.ret = [t |-> "null", v |-> 0]

----------------------------------------------------------------------------
(* C16 *)

----------------------------------------------------------------------------
(* C17 *)

\* C17: a cfg_compute_root_files call that directly follows another one
\* hands back the same array and the same enforcing flag as that one and
\* leaves both layers, so the stored array, as they were.
C17_Idempotent ==
  [][(out'.op = "cfg_compute_root_files" /\ ncalls >= 1)
       => /\ out'.ret = out.ret
          /\ out'.enforcing = out.enforcing
          /\ out'.fatal = out.fatal
          /\ arg_cfg' = arg_cfg
          /\ global_cfg' = global_cfg]_vars

\* Two calls in a row over a stored root_files that began as
\* ["foo", ".watchmanconfig"]: one marker was prepended, and the second
\* call handed back the stored array.
C17_Witness ==
  /\ ncalls = 2
  /\ Computed
  /\ ~out.fatal
  /\ RootFilesValue # NULL
  /\ RootFilesValue.v = <<Marker, [t |-> "string", v |-> "foo"], Marker>>
  /\ out.ret = RootFilesValue

----------------------------------------------------------------------------
(* C11, C19, C20 *)

Thread(t) == threads[t]

IsWriter(t) == Thread(t).op \in {"cfg_set_global", "cfg_set_arg"}

IsLookup(t) == Thread(t).op \in {"cfg_get_json", "cfg_get_string"}

Finished(t) == Thread(t).pc = "done"

\* No two writers write the same key of the same layer.
DisjointKeys ==
  \A t, u \in DOMAIN threads :
     (t # u /\ IsWriter(t) /\ IsWriter(u)) =>
        (Thread(t).layer # Thread(u).layer \/ Thread(t).name # Thread(u).name)

\* The values written, so far, to the key of a layer.
Written(layer, name) ==
  {Thread(u).val : u \in {w \in DOMAIN threads :
                            /\ IsWriter(w)
                            /\ Thread(w).layer = layer
                            /\ Thread(w).name = name
                            /\ Thread(w).pc \in {"set_unlock", "done"}}}

\* C11: with writers on pairwise distinct keys, every writer that has
\* finished finds its key in its layer with the value it wrote, whichever
\* writer created the layer and however the calls interleaved; and what a
\* reader got from a layer for its key is NULL or a value a writer wrote to
\* that key.
C11_NoLostUpdate ==
  DisjointKeys =>
    /\ \A t \in DOMAIN threads :
          (IsWriter(t) /\ Finished(t)) =>
             /\ HasKey(Pointer(Thread(t).layer), Thread(t).name)
             /\ ValueAt(Pointer(Thread(t).layer), Thread(t).name)
                  = Thread(t).val
    /\ \A t \in DOMAIN threads :
          (IsLookup(t) /\ Thread(t).pc \in {"raw_unlock", "string_check",
                                            "done"}) =>
             Thread(t).val \in
               {NULL} \cup Written(Thread(t).layer, Thread(t).name)

\* Two writers wrote two keys of the argument layer, one of them created
\* the layer, both entries are there, and a reader got one of them.
C11_Witness ==
  \E t, u, w \in DOMAIN threads :
     /\ t # u
     /\ Thread(t).op = "cfg_set_arg" /\ Thread(u).op = "cfg_set_arg"
     /\ Thread(t).name # Thread(u).name
     /\ Finished(t) /\ Finished(u)
     /\ Thread(t).isnull /\ ~Thread(u).isnull
     /\ ValueAt(arg_cfg, Thread(t).name) = Thread(t).val
     /\ ValueAt(arg_cfg, Thread(u).name) = Thread(u).val
     /\ IsLookup(w) /\ Finished(w)
     /\ Thread(w).val = Thread(t).val

\* C19: the value cfg_get_json handed to cfg_get_string is still the entry
\* of its key in the layer that supplied it when cfg_get_string checks its
\* type and unwraps it.
C19_ValueStillHeld ==
  \A t \in DOMAIN threads :
     (Thread(t).op = "cfg_get_string" /\ Finished(t)) => Thread(t).held

\* C20: what a lookup without root view hands back is the effective value
\* (argument layer over global layer, or NULL) that its key had at some
\* instant between the start of the call and its return.
C20_ResolveIsSnapshot ==
  \A t \in DOMAIN threads :
     (IsLookup(t) /\ Thread(t).pc \in {"string_check", "done"}) =>
        Thread(t).val \in Thread(t).seen

----------------------------------------------------------------------------
(* C12, C18 *)

Modifying(t) ==
  Thread(t).pc \in {"set_create", "set_insert", "prepend_append",
                    "prepend_insert"}

Reading(t) ==
  Thread(t).pc \in {"raw_get", "compute_root_files",
                    "compute_restrict_files", "prepend_test"}

\* C12: a layer changes only in a step of the thread that holds cfg_lock
\* exclusively; and while a thread is at a statement that modifies a layer
\* no other thread is at a statement that modifies or reads that layer.
C12_ModifyUnderExclusiveLock ==
  /\ [][(global_cfg' # global_cfg \/ arg_cfg' # arg_cfg) =>
           \E t \in DOMAIN threads :
              cfg_lock.writer = t /\ threads'[t] # threads[t]]_vars
  /\ [](\A t, u \in DOMAIN threads :
           (t # u /\ Modifying(t) /\ Thread(t).layer = Thread(u).layer) =>
              ~(Modifying(u) \/ Reading(u)))

WithoutMarker(a) == SelectSeq(a, LAMBDA x : x # Marker)

\* A thread's call has put the marker in front of the array of this key.
Prepended(layer, name) ==
  \E t \in DOMAIN threads :
     /\ Thread(t).op = "cfg_compute_root_files"
     /\ Finished(t)
     /\ Thread(t).layer = layer
     /\ Thread(t).name = name
     /\ Thread(t).ret.t = "array"
     /\ name = "root_files" \/ ~Thread(t).ignore

\* C18: a stored root_files / root_restrict_files array that had no marker
\* holds, at any time, its original elements in their order with at most
\* one marker in front, and exactly one once a call has returned it.
C18_PrependedOnce ==
  \A layer \in {"global_cfg", "arg_cfg"},
     name \in {"root_files", "root_restrict_files"} :
     HasKey(Pointer(layer), name) =>
       LET a == ValueAt(Pointer(layer), name).v
       IN  /\ a \in {WithoutMarker(a), <<Marker>> \o WithoutMarker(a)}
           /\ Prepended(layer, name) => a = <<Marker>> \o WithoutMarker(a)

====
